---------------------------- MODULE Spec2Model ----------------------------
(***************************************************************************)
(* The live interview session controller of                                *)
(* src/frontend/app/interview/[jobId]/[resumeId]/page.tsx (InterviewPage). *)
(*                                                                         *)
(* The page is a React function component.  A useState cell changes only   *)
(* when a render commits the queued updates, and every handler or effect   *)
(* reads the cells of the render that created it.  The model keeps both:   *)
(*   ui : the cells as last committed (what handlers and effects read),    *)
(*   nx : the cells with every queued setState applied.                    *)
(* Render commits nx into ui and runs, in source order, the effects whose  *)
(* dependency array changed (cleanups first, with the previous closure).   *)
(* Refs, the DOM, the socket and timers are ordinary variables.            *)
(***************************************************************************)
EXTENDS Integers, Sequences, FiniteSets, TLC

VARIABLES
    ui,        \* committed useState cells (page.tsx:38-91)
    nx,        \* the same cells with the queued updates applied
    dom,       \* document.fullscreenElement and a pending exitFullscreen()
    sock,      \* readyState of the WebSocket made by the WebSocket effect
    pc,        \* where each async function is suspended
    timers,    \* armed setTimeout callbacks
    tracks,    \* the media tracks of the three setup streams
    closure,   \* cells captured by the long-lived handlers (onended, onmessage)
    mounted,   \* the component is mounted
    voice,     \* recorderRef, dgConnRef, bufferRef, the recording stream; playback
    out,       \* frames put on the protocol socket by the last step
    shown,     \* what the last step passed to setError and to the warning setters
    last,      \* the handler, callback or effect that ran last
    ends,      \* who sent the first two "end interview" frames of the session
    stale      \* handler runs since the last committed render

vars == <<ui, nx, dom, sock, pc, timers, tracks, closure, mounted, voice,
          out, shown, last, ends, stale>>

---------------------------------------------------------------------------
(* Bounds of the model *)

\* Handler runs a render may lag behind (1: every handler sees the cells its
\* predecessor queued; updates queued by an effect body are still unseen).
MaxStale == 1
\* The visibility handler is followed up to this count (the limit is TAB_LIMIT).
MaxTabSwitch == 4
\* The fullscreen handler is followed up to this count (the limit is FS_LIMIT).
MaxFsExit == 3
\* Seconds on the countdown; the page starts it at 600 (page.tsx:89).
TIMER_SEC == 2
\* Transcript events followed per capture activation.
MaxFragments == 2
\* Clicks on "Allow Camera & Microphone" followed (each may acquire a new stream).
MaxPermissionAttempts == 2
\* speakText invocations that are fetching or playing at the same time.
MaxSpeak == 2

(* Program constants *)

\* status.max_questions of the initial status (page.tsx:45)
INIT_MAX_QUESTIONS == 8
\* newCount >= 3 ends the interview (page.tsx:591)
TAB_LIMIT == 3
\* newCount >= 2 ends the interview (page.tsx:551)
FS_LIMIT == 2
\* the close code that sets no error (page.tsx:319)
NORMAL_CLOSE == 1000

\* A JSON field that is absent (undefined); the counts on the wire are >= 0.
Undef == 0 - 1

\* setError texts
ErrPermission == "Camera and microphone access are required for the interview."
ErrScreenShare == "Screen sharing is required for the interview."
ErrFullscreen == "Fullscreen mode is required for the interview."
ErrInvalid == "Invalid response from server"
ErrServer == "data.error"
ErrLost == "Connection lost. Please refresh."
ErrTabs == "Interview ended: Too many tab switches."
ErrTime == "Interview ended: Time limit reached."
ErrNoSpeech == "No speech detected. Please try speaking again."
ErrVoice == "Could not start voice recognition."

WarnTab1 == "Warning: You left the tab. 2 chances left!"
WarnTab2 == "Last warning: Next tab switch will end your interview!"
WarnFs1 == "Warning: Fullscreen mode is required. 1 chance left!"
WarnFsEnd == "Interview ended: Multiple fullscreen violations detected."

---------------------------------------------------------------------------
(* Outbound frames (JSON.stringify arguments of ws.send / socket.send) *)

MsgShare(action) == [type |-> "screen-share", action |-> action]
MsgTabSwitch(n) == [type |-> "tab-switch", count |-> n]
MsgFsViolation(n) == [type |-> "fullscreen-violation", count |-> n]
\* src is not on the wire: it records which handler sent the frame.
MsgEnd(src) == [type |-> "answer", answer |-> "end interview", src |-> src]
MsgAnswer(text) == [type |-> "answer", answer |-> text, src |-> "stopListening"]

IsEnd(m) == m.type = "answer" /\ m.answer = "end interview"

\* The senders of the "end interview" frames of s, in order.
RECURSIVE EndsOf(_)
EndsOf(s) == IF s = <<>> THEN <<>>
             ELSE (IF IsEnd(Head(s)) THEN <<Head(s).src>> ELSE <<>>) \o EndsOf(Tail(s))

Min(a, b) == IF a < b THEN a ELSE b

\* WebSocket.send: the frame leaves only on an OPEN socket; on a CONNECTING
\* socket send throws InvalidStateError; on CLOSING or CLOSED it is dropped.
\* (DeliveredWhenConnecting is a socket that also takes frames before it is open.)
DeliveredWhenConnecting(rs, m) == IF rs \in {"CONNECTING", "OPEN"} THEN <<m>> ELSE <<>>
Delivered(rs, m) == IF rs = "OPEN" THEN <<m>> ELSE <<>>
Throws(rs) == rs = "CONNECTING"

\* WebSocket.close()
Closed(rs) == IF rs \in {"CONNECTING", "OPEN"} THEN "CLOSING" ELSE rs

---------------------------------------------------------------------------
(* Initial state: the cells' useState initialisers, nothing acquired *)

InitCells ==
    [ paramsReady |-> FALSE,
      ws |-> FALSE,
      isConnected |-> FALSE,
      status |-> [question_count |-> 0, max_questions |-> INIT_MAX_QUESTIONS,
                  is_complete |-> FALSE],
      setupComplete |-> FALSE,
      cameraPermission |-> "prompt",
      micPermission |-> "prompt",
      screenShareActive |-> FALSE,
      setupStep |-> "permissions",
      videoStream |-> 0,
      audioStream |-> FALSE,
      screenStream |-> FALSE,
      isListening |-> FALSE,
      isSpeaking |-> FALSE,
      tabSwitchCount |-> 0,
      interviewEndedByProctor |-> FALSE,
      fullscreenExitCount |-> 0,
      showFullscreenPrompt |-> FALSE,
      timerSec |-> TIMER_SEC,
      timerActive |-> FALSE ]

\* error, proctorWarning and fullscreenWarning are cells that only the JSX
\* reads: the model keeps, per step, the value each setter was called with.
Quiet == [error |-> "none", proctorWarning |-> "none", fullscreenWarning |-> "none"]
SetError(e) == [Quiet EXCEPT !.error = e]

\* Strings are sequences of characters.  frags is the list of fragments the
\* Transcript handler has appended since capture was last started; events
\* counts the Transcript events since then.
\* Playback: tts counts the speakText invocations awaiting textToSpeech,
\* eleven the provider audio being played, utterance says that a
\* speechSynthesis utterance is speaking, and cancelled that the end event
\* of an utterance interrupted by speechSynthesis.cancel() is still to come.
\* late says that a connection finished while open has its last final
\* Transcript event still to come, and foreign that bufferRef holds a
\* fragment delivered by such a connection.
InitVoice ==
    [ recorderRef |-> "null", dgConnRef |-> "null", rec |-> "none", dg |-> "none",
      recStream |-> "none", buffer |-> <<>>, frags |-> <<>>, events |-> 0,
      tts |-> 0, eleven |-> 0, utterance |-> FALSE, cancelled |-> FALSE,
      late |-> FALSE, foreign |-> FALSE ]

Init ==
    /\ ui = InitCells
    /\ nx = InitCells
    /\ dom = [fullscreen |-> FALSE, exitReq |-> FALSE]
    /\ sock = "NONE"
    /\ pc = [perm |-> "idle", attempts |-> 0, share |-> "idle", setup |-> "idle",
             listen |-> "idle"]
    /\ timers = [tick |-> FALSE, redirect |-> FALSE, fsRetry |-> FALSE]
    /\ tracks = [video |-> [i \in 1..MaxPermissionAttempts |-> "none"],
                 audio |-> "none", screen |-> "none"]
    /\ closure = [onended |-> [set |-> FALSE, setupComplete |-> FALSE, ws |-> FALSE],
                  onmessage |-> [max_questions |-> INIT_MAX_QUESTIONS]]
    /\ mounted = TRUE
    /\ voice = InitVoice
    /\ out = <<>>
    /\ shown = Quiet
    /\ last = "mount"
    /\ ends = <<>>
    /\ stale = 0

\* A handler may run while fewer than MaxStale runs are waiting for a render.
CanRun == mounted /\ stale < MaxStale

\* Bookkeeping shared by every step: the frames sent, who ran, the end frames.
Emit(label, frames, display) ==
    /\ out' = frames
    /\ shown' = display
    /\ last' = label
    /\ ends' = LET all == ends \o EndsOf(frames) IN SubSeq(all, 1, Min(2, Len(all)))

Handled(label, frames, display) == Emit(label, frames, display) /\ stale' = stale + 1

---------------------------------------------------------------------------
(* Setup: requestPermissions, startScreenShare, completeSetup *)

BothGranted(c) == c.cameraPermission = "granted" /\ c.micPermission = "granted"

\* The setup screen is what the page returns while setupComplete is false.
SetupScreen(step) == mounted /\ ~ui.setupComplete /\ ui.setupStep = step

\* useEffect(params): jobId and resumeId are set once the params promise resolves.
ParamsResolved ==
    /\ CanRun /\ ~nx.paramsReady
    /\ nx' = [nx EXCEPT !.paramsReady = TRUE]
    /\ Handled("params", <<>>, Quiet)
    /\ UNCHANGED <<ui, dom, sock, pc, timers, tracks, closure, mounted, voice>>

\* Click on "Allow Camera & Microphone": the camera request is issued.
RequestPermissions ==
    /\ CanRun /\ SetupScreen("permissions") /\ ~BothGranted(ui)
    /\ pc.perm = "idle" /\ pc.attempts < MaxPermissionAttempts
    /\ pc' = [pc EXCEPT !.perm = "camera", !.attempts = @ + 1]
    /\ Handled("requestPermissions", <<>>, Quiet)
    /\ UNCHANGED <<ui, nx, dom, sock, timers, tracks, closure, mounted, voice>>

\* A catch block that moves on to the next step after a denial.
PermissionCatchAdvances(c, r) ==
    IF r = "denied"
    THEN [c EXCEPT !.cameraPermission = "denied", !.micPermission = "denied",
                   !.setupStep = "screen-share"]
    ELSE c

\* The catch block: only NotAllowedError records the denial.
PermissionCatch(c, r) ==
    IF r = "denied"
    THEN [c EXCEPT !.cameraPermission = "denied", !.micPermission = "denied"]
    ELSE c

PermissionError(r) == IF r = "denied" THEN SetError(ErrPermission) ELSE Quiet

\* getUserMedia({video}) settles.
CameraResult(r) ==
    /\ CanRun /\ pc.perm = "camera"
    /\ IF r = "granted"
       THEN /\ nx' = [nx EXCEPT !.videoStream = pc.attempts,
                                !.cameraPermission = "granted"]
            /\ tracks' = [tracks EXCEPT !.video[pc.attempts] = "live"]
            /\ pc' = [pc EXCEPT !.perm = "microphone"]
       ELSE /\ nx' = PermissionCatch(nx, r)
            /\ pc' = [pc EXCEPT !.perm = "idle"]
            /\ UNCHANGED tracks
    /\ Handled("camera." \o r, <<>>, PermissionError(r))
    /\ UNCHANGED <<ui, dom, sock, timers, closure, mounted, voice>>

\* getUserMedia({audio}) settles.
MicrophoneResult(r) ==
    /\ CanRun /\ pc.perm = "microphone"
    /\ IF r = "granted"
       THEN /\ nx' = [nx EXCEPT !.audioStream = TRUE, !.micPermission = "granted",
                                !.setupStep = "screen-share"]
            /\ tracks' = [tracks EXCEPT !.audio = "live"]
       ELSE /\ nx' = PermissionCatch(nx, r)
            /\ UNCHANGED tracks
    /\ pc' = [pc EXCEPT !.perm = "idle"]
    /\ Handled("microphone." \o r, <<>>, PermissionError(r))
    /\ UNCHANGED <<ui, dom, sock, timers, closure, mounted, voice>>

\* Click on "Start Screen Share": getDisplayMedia is issued.  The onended
\* handler registered on success closes over this render's setupComplete and ws.
StartScreenShare ==
    /\ CanRun /\ SetupScreen("screen-share") /\ ~ui.screenShareActive
    /\ pc.share = "idle"
    /\ pc' = [pc EXCEPT !.share = "display"]
    /\ closure' = [closure EXCEPT !.onended = [set |-> FALSE,
                        setupComplete |-> ui.setupComplete, ws |-> ui.ws]]
    /\ Handled("startScreenShare", <<>>, Quiet)
    /\ UNCHANGED <<ui, nx, dom, sock, timers, tracks, mounted, voice>>

\* getDisplayMedia settles.
DisplayResult(ok) ==
    /\ CanRun /\ pc.share = "display"
    /\ IF ok
       THEN /\ nx' = [nx EXCEPT !.screenStream = TRUE, !.screenShareActive = TRUE,
                                !.setupStep = "ready"]
            /\ tracks' = [tracks EXCEPT !.screen = "live"]
            /\ closure' = [closure EXCEPT !.onended.set = TRUE]
       ELSE UNCHANGED <<nx, tracks, closure>>
    /\ pc' = [pc EXCEPT !.share = "idle"]
    /\ Handled(IF ok THEN "display.granted" ELSE "display.denied", <<>>,
               IF ok THEN Quiet ELSE SetError(ErrScreenShare))
    /\ UNCHANGED <<ui, dom, sock, timers, mounted, voice>>

\* The user stops the share from the browser: the track's onended handler.
\* The ended event may also come right behind another event, before the
\* render that event asked for.
ScreenShareEnded ==
    /\ mounted /\ stale <= MaxStale
    /\ closure.onended.set /\ tracks.screen = "live"
    /\ tracks' = [tracks EXCEPT !.screen = "ended"]
    /\ nx' = [nx EXCEPT !.screenShareActive = FALSE]
    /\ Handled("screen.onended",
               IF closure.onended.setupComplete /\ closure.onended.ws
               THEN Delivered(sock, MsgShare("ended")) ELSE <<>>, Quiet)
    /\ UNCHANGED <<ui, dom, sock, pc, timers, closure, mounted, voice>>

\* completeSetup with a guard that forgets the screen share.
SetupPreconditionNoShare(c) == BothGranted(c)

\* The guard of completeSetup, on the cells of the render that made the handler.
SetupPrecondition(c) == BothGranted(c) /\ c.screenShareActive

\* Click on "Start Interview": completeSetup up to its await.
CompleteSetup ==
    /\ CanRun /\ SetupScreen("ready") /\ pc.setup = "idle"
    /\ pc' = IF SetupPrecondition(ui) THEN [pc EXCEPT !.setup = "fullscreen"] ELSE pc
    /\ Handled("completeSetup", <<>>, Quiet)
    /\ UNCHANGED <<ui, nx, dom, sock, timers, tracks, closure, mounted, voice>>

\* enterFullscreen: a rejected request is caught and only sets the error;
\* without the API nothing is requested.  The promise resolves either way.
EnterFullscreen(r) == IF r = "rejected" THEN SetError(ErrFullscreen) ELSE Quiet

\* What completeSetup does once `await enterFullscreen()` returns.
AfterEnterFullscreen(c, r) == [c EXCEPT !.setupComplete = TRUE, !.timerActive = TRUE]

\* requestFullscreen settles and completeSetup resumes.
CompleteSetupResume(r) ==
    /\ CanRun /\ pc.setup = "fullscreen"
    /\ dom' = [dom EXCEPT !.fullscreen = (r = "entered") \/ @]
    /\ nx' = AfterEnterFullscreen(nx, r)
    /\ pc' = [pc EXCEPT !.setup = "idle"]
    /\ Handled("completeSetup." \o r, <<>>, EnterFullscreen(r))
    /\ UNCHANGED <<ui, sock, timers, tracks, closure, mounted, voice>>

---------------------------------------------------------------------------
(* Voice refs: cleanupVoice *)

\* cleanupVoice on the refs: stop() of a recording recorder runs its onstop
\* (the recording stream is released, the connection finished); stop() of an
\* inactive recorder throws and is swallowed.
CleanupVoice(v) ==
    LET recording == v.recorderRef = "set" /\ v.rec = "recording"
    IN [v EXCEPT !.recorderRef = "null",
                 !.dgConnRef = "null",
                 !.rec = IF recording THEN "stopped" ELSE @,
                 !.recStream = IF recording THEN "stopped" ELSE @,
                 !.dg = IF v.dgConnRef = "set" \/ recording THEN "finished" ELSE @,
                 !.late = @ \/ v.dg = "open",
                 !.buffer = <<>>,
                 !.foreign = FALSE]

\* cleanupVoice on the cells
CleanupVoiceCells(c) == [c EXCEPT !.isListening = FALSE]

\* window.speechSynthesis.cancel(): a speaking utterance is interrupted and
\* its end (or error) event is queued.
CancelSpeech(v) ==
    [v EXCEPT !.utterance = FALSE, !.cancelled = @ \/ v.utterance]

\* A fallback that cancels and then speaks nothing.
SpeakNothing(v) == [v EXCEPT !.utterance = FALSE, !.cancelled = @ \/ v.utterance]

\* speechSynthesis.cancel() followed by speechSynthesis.speak(utterance)
SpeakUtterance(v) == [CancelSpeech(v) EXCEPT !.utterance = TRUE]

---------------------------------------------------------------------------
(* Effects *)

WsDeps(c) == <<c.setupComplete, c.paramsReady>>
TimerDeps(c) == <<c.timerSec, c.timerActive, c.status.is_complete,
                  c.interviewEndedByProctor, c.ws>>
CleanupDeps(c) == <<c.videoStream, c.audioStream, c.screenStream, c.ws>>
RedirectDeps(c) == <<c.status.is_complete, c.interviewEndedByProctor>>

\* The WebSocket effect goes past its first line.
OpensSocket(c) == c.setupComplete /\ c.paramsReady

\* A Timer effect whose first line looks at timerActive only.
TimerRunsUnguarded(c) == c.timerActive

\* The Timer effect goes past its first line.
TimerRuns(c) == c.timerActive /\ ~c.status.is_complete /\ ~c.interviewEndedByProctor

\* The auto-redirect effect arms its timeout.
Terminal(c) == c.status.is_complete \/ c.interviewEndedByProctor

\* track.stop()
Stop(t) == IF t = "live" THEN "stopped" ELSE IF t = "stopped" THEN "restopped" ELSE t

\* The cleanup of the "Cleanup on unmount" effect, on the tracks of closure c.
StopTracks(c, tr) ==
    [ video |-> [i \in DOMAIN tr.video |->
                    IF i = c.videoStream THEN Stop(tr.video[i]) ELSE tr.video[i]],
      audio |-> IF c.audioStream THEN Stop(tr.audio) ELSE tr.audio,
      screen |-> IF c.screenStream THEN Stop(tr.screen) ELSE tr.screen ]

\* ... and on the document: exitFullscreen() if fullscreen is engaged.
ExitIfFullscreen(d) == IF d.fullscreen THEN [d EXCEPT !.exitReq = TRUE] ELSE d

\* The Timer effect at zero: what it queues.
TimerExpiry(c) == [c EXCEPT !.timerActive = FALSE, !.interviewEndedByProctor = TRUE]

\* A render commits the queued updates and runs the effects whose
\* dependencies changed: their cleanups with the previous closure, then their
\* bodies with the new one.
Render ==
    /\ mounted
    /\ nx # ui \/ stale > 0
    /\ LET old == ui
           new == nx
           runWs == WsDeps(old) # WsDeps(new)
           runTimer == TimerDeps(old) # TimerDeps(new)
           runCleanup == CleanupDeps(old) # CleanupDeps(new)
           runRedirect == RedirectDeps(old) # RedirectDeps(new)
           \* cleanups
           sock1 == IF (runWs /\ OpensSocket(old)) \/ (runCleanup /\ old.ws)
                    THEN Closed(sock) ELSE sock
           tracks1 == IF runCleanup THEN StopTracks(old, tracks) ELSE tracks
           voice1 == IF runCleanup THEN CancelSpeech(CleanupVoice(voice)) ELSE voice
           dom1 == IF runCleanup THEN ExitIfFullscreen(dom) ELSE dom
           c1 == IF runCleanup THEN CleanupVoiceCells(new) ELSE new
           \* bodies
           create == runWs /\ OpensSocket(new)
           sock2 == IF create THEN "CONNECTING" ELSE sock1
           c2 == IF create THEN [c1 EXCEPT !.ws = TRUE] ELSE c1
           expires == runTimer /\ TimerRuns(new) /\ new.timerSec <= 0
           frames == IF expires /\ new.ws THEN Delivered(sock2, MsgEnd("timer"))
                     ELSE <<>>
           c3 == IF expires THEN TimerExpiry(c2) ELSE c2
           tick == IF runTimer THEN TimerRuns(new) /\ new.timerSec > 0
                   ELSE timers.tick
           redirect == IF runRedirect THEN Terminal(new) ELSE timers.redirect
       IN /\ ui' = new
          /\ nx' = c3
          /\ closure' = IF create
                        THEN [closure EXCEPT !.onmessage =
                                 [max_questions |-> new.status.max_questions]]
                        ELSE closure
          /\ sock' = sock2
          /\ tracks' = tracks1
          /\ voice' = voice1
          /\ dom' = dom1
          /\ timers' = [timers EXCEPT !.tick = tick, !.redirect = redirect]
          /\ Emit(IF expires THEN "timer.expired" ELSE "render", frames,
                  IF expires THEN SetError(ErrTime) ELSE Quiet)
    /\ stale' = 0
    /\ UNCHANGED <<pc, mounted>>

\* The redirect timeout fires: router.replace unmounts the page and every
\* effect's cleanup runs with the closure of the last committed render.
RedirectFires ==
    /\ mounted /\ timers.redirect
    /\ mounted' = FALSE
    /\ sock' = IF OpensSocket(ui) \/ ui.ws THEN Closed(sock) ELSE sock
    /\ tracks' = StopTracks(ui, tracks)
    /\ voice' = CancelSpeech(CleanupVoice(voice))
    /\ dom' = ExitIfFullscreen(dom)
    /\ timers' = [timers EXCEPT !.tick = FALSE, !.redirect = FALSE]
    /\ nx' = CleanupVoiceCells(nx)
    /\ Emit("redirect", <<>>, Quiet)
    /\ UNCHANGED <<ui, pc, closure, stale>>

---------------------------------------------------------------------------
(* Protocol socket *)

\* socket.onopen
SocketOpen ==
    /\ CanRun /\ sock = "CONNECTING"
    /\ sock' = "OPEN"
    /\ nx' = [nx EXCEPT !.isConnected = TRUE]
    /\ Handled("socket.onopen", Delivered("OPEN", MsgShare("started")), SetError("null"))
    /\ UNCHANGED <<ui, dom, pc, timers, tracks, closure, mounted, voice>>

\* The server starts the closing handshake: readyState is CLOSING until the
\* close event.
ServerClosing ==
    /\ mounted /\ sock = "OPEN"
    /\ sock' = "CLOSING"
    /\ Emit("socket.closing", <<>>, Quiet)
    /\ UNCHANGED <<ui, nx, dom, pc, timers, tracks, closure, mounted, voice, stale>>

\* socket.onclose (after socket.onerror when the connection failed or dropped)
OnClose(c, code) == [c EXCEPT !.isConnected = FALSE]
\* A close handler that reports every close as a lost connection.
OnCloseErrorAlways(code) == SetError(ErrLost)

OnCloseError(code) == IF code # NORMAL_CLOSE THEN SetError(ErrLost) ELSE Quiet

SocketClosed(code) ==
    /\ sock \in {"CONNECTING", "OPEN", "CLOSING"}
    /\ sock = "CLOSING" \/ code # NORMAL_CLOSE
    /\ mounted => stale < MaxStale
    /\ sock' = "CLOSED"
    /\ nx' = IF mounted THEN OnClose(nx, code) ELSE nx
    /\ Emit(IF code = NORMAL_CLOSE THEN "socket.onclose.normal" ELSE "socket.onclose.abnormal",
            <<>>, IF mounted THEN OnCloseError(code) ELSE Quiet)
    /\ stale' = IF mounted THEN stale + 1 ELSE stale
    /\ UNCHANGED <<ui, dom, pc, timers, tracks, closure, mounted, voice>>

\* Inbound frames: ev.data of socket.onmessage
\* text is "none" (absent or empty), "blank" (white space only) or "words".
Inbound ==
    {[kind |-> "invalid", text |-> "none"], [kind |-> "error", text |-> "none"],
     [kind |-> "screen_share_request", text |-> "none"],
     [kind |-> "screen_share_confirmed", text |-> "none"],
     [kind |-> "interview_complete", max_questions |-> Undef, text |-> "none"],
     [kind |-> "question", question_count |-> 1, max_questions |-> 2, text |-> "none"],
     [kind |-> "question", question_count |-> 2, max_questions |-> 2, text |-> "none"],
     [kind |-> "unknown", question_count |-> Undef, max_questions |-> Undef,
      text |-> "none"]}

\* Inbound frames that carry a text
InboundSpoken ==
    {[kind |-> "question", question_count |-> 1, max_questions |-> 2, text |-> "words"],
     [kind |-> "question", question_count |-> 1, max_questions |-> 2, text |-> "blank"],
     [kind |-> "interview_complete", max_questions |-> Undef, text |-> "words"]}

\* Question frames, with and without a text
Questions == {m \in Inbound \cup InboundSpoken : m.kind = "question"}

\* socket.onmessage reaches speakText(text) ...
CallsSpeakText(m) ==
    /\ m.kind \notin {"invalid", "error", "screen_share_request", "screen_share_confirmed"}
    /\ m.text # "none"

\* ... and speakText goes past `if (!text.trim()) return`.
Speaks(m) == CallsSpeakText(m) /\ m.text = "words"

\* Playbacks being fetched or played.
Busy(v) == v.tts + v.eleven + (IF v.utterance THEN 1 ELSE 0)

\* max_questions || status.max_questions
OrElse(v, dflt) == IF v = Undef \/ v = 0 THEN dflt ELSE v
\* a >= b of two JSON values (false when a is undefined)
Geq(a, b) == a # Undef /\ a >= b

\* A setStatus that keeps the max_questions the handler closed over.
NewStatusKeepsMax(m, cap) ==
    IF m.kind = "interview_complete"
    THEN [question_count |-> cap.max_questions, max_questions |-> cap.max_questions,
          is_complete |-> TRUE]
    ELSE [question_count |-> m.question_count, max_questions |-> cap.max_questions,
          is_complete |-> Geq(m.question_count, cap.max_questions)]

\* setStatus of socket.onmessage
NewStatus(m, cap) ==
    LET max == OrElse(m.max_questions, cap.max_questions)
    IN IF m.kind = "interview_complete"
       THEN [question_count |-> max, max_questions |-> max, is_complete |-> TRUE]
       ELSE [question_count |-> m.question_count, max_questions |-> max,
             is_complete |-> Geq(m.question_count, max)]

OnMessage(c, m, cap) ==
    IF m.kind \in {"invalid", "error", "screen_share_request", "screen_share_confirmed"}
    THEN c
    ELSE [c EXCEPT !.status = NewStatus(m, cap)]

OnMessageError(m) ==
    IF m.kind = "invalid" THEN SetError(ErrInvalid)
    ELSE IF m.kind = "error" THEN SetError(ErrServer) ELSE Quiet

\* socket.onmessage; a text is handed to speakText, which sets isSpeaking and
\* asks the provider for the audio.
SocketMessage(m) ==
    /\ CanRun /\ sock = "OPEN"
    /\ Speaks(m) => Busy(voice) < MaxSpeak
    /\ nx' = [OnMessage(nx, m, closure.onmessage) EXCEPT
                 !.isSpeaking = IF Speaks(m) THEN TRUE ELSE @]
    /\ voice' = IF Speaks(m) THEN [voice EXCEPT !.tts = @ + 1] ELSE voice
    /\ Handled("socket.onmessage." \o m.kind,
               IF m.kind = "screen_share_request"
               THEN Delivered(sock, MsgShare("started")) ELSE <<>>,
               OnMessageError(m))
    /\ UNCHANGED <<ui, dom, sock, pc, timers, tracks, closure, mounted>>

\* textToSpeech settles and speakText resumes: the audio is played, or (no
\* audio, or an exception, after which the catch block clears isSpeaking)
\* the browser's synthesis speaks the text.
TtsResult(r) ==
    /\ CanRun /\ voice.tts > 0
    /\ voice' = IF r = "audio"
                THEN [voice EXCEPT !.tts = @ - 1, !.eleven = @ + 1]
                ELSE [SpeakUtterance(voice) EXCEPT !.tts = @ - 1]
    /\ nx' = IF r = "throws" THEN [nx EXCEPT !.isSpeaking = FALSE] ELSE nx
    /\ Handled("tts." \o r, <<>>, Quiet)
    /\ UNCHANGED <<ui, dom, sock, pc, timers, tracks, closure, mounted>>

\* playAudio resolves when the provider audio has been played to its end.
ElevenEnds ==
    /\ CanRun /\ voice.eleven > 0
    /\ voice' = [voice EXCEPT !.eleven = @ - 1]
    /\ nx' = [nx EXCEPT !.isSpeaking = FALSE]
    /\ Handled("playAudio.ended", <<>>, Quiet)
    /\ UNCHANGED <<ui, dom, sock, pc, timers, tracks, closure, mounted>>

\* playAudio rejects: the catch block clears isSpeaking and the browser's
\* synthesis speaks the text.
ElevenFails ==
    /\ CanRun /\ voice.eleven > 0
    /\ voice' = [SpeakUtterance(voice) EXCEPT !.eleven = @ - 1]
    /\ nx' = [nx EXCEPT !.isSpeaking = FALSE]
    /\ Handled("playAudio.failed", <<>>, Quiet)
    /\ UNCHANGED <<ui, dom, sock, pc, timers, tracks, closure, mounted>>

\* utterance.onend of the speaking utterance, or onend / onerror of an
\* interrupted one.
UtteranceEnds(interrupted) ==
    /\ CanRun
    /\ IF interrupted THEN voice.cancelled ELSE voice.utterance
    /\ voice' = IF interrupted THEN [voice EXCEPT !.cancelled = FALSE]
                ELSE [voice EXCEPT !.utterance = FALSE]
    /\ nx' = [nx EXCEPT !.isSpeaking = FALSE]
    /\ Handled(IF interrupted THEN "utterance.interrupted" ELSE "utterance.onend",
               <<>>, Quiet)
    /\ UNCHANGED <<ui, dom, sock, pc, timers, tracks, closure, mounted>>

---------------------------------------------------------------------------
(* Integrity monitoring, timer, end button *)

\* ws.send guarded by `ws && ws.readyState === WebSocket.OPEN`
GuardedSend(c, m) == IF c.ws THEN Delivered(sock, m) ELSE <<>>
\* ws?.send
OptionalSend(c, m) == IF c.ws THEN Delivered(sock, m) ELSE <<>>
OptionalSendThrows(c) == c.ws /\ Throws(sock)

\* A visibility handler that counts on both counters.
OnHiddenCountsBoth(c, q) ==
    [q EXCEPT !.tabSwitchCount = c.tabSwitchCount + 1,
              !.fullscreenExitCount = c.fullscreenExitCount + 1,
              !.interviewEndedByProctor = @ \/ c.tabSwitchCount + 1 >= TAB_LIMIT]

\* onVisibilityChange with document.hidden true, on closure c, queueing into q
OnHidden(c, q) ==
    LET newCount == c.tabSwitchCount + 1
        q1 == [q EXCEPT !.tabSwitchCount = newCount]
    IN IF newCount >= TAB_LIMIT /\ ~OptionalSendThrows(c)
       THEN [q1 EXCEPT !.interviewEndedByProctor = TRUE]
       ELSE q1

HiddenDisplay(c) ==
    LET newCount == c.tabSwitchCount + 1
    IN [Quiet EXCEPT
          !.proctorWarning = IF newCount = 1 THEN WarnTab1
                             ELSE IF newCount = 2 THEN WarnTab2 ELSE @,
          !.error = IF newCount >= TAB_LIMIT /\ ~OptionalSendThrows(c)
                    THEN ErrTabs ELSE @]

HiddenFrames(c) ==
    LET newCount == c.tabSwitchCount + 1
    IN GuardedSend(c, MsgTabSwitch(newCount))
       \o (IF newCount >= TAB_LIMIT THEN OptionalSend(c, MsgEnd("tab-switch")) ELSE <<>>)

\* visibilitychange with document.hidden true (the handler does nothing on
\* the change back to visible, which is not a step of the model)
TabHidden ==
    /\ CanRun
    /\ IF ui.setupComplete
       THEN /\ ui.tabSwitchCount < MaxTabSwitch
            /\ nx' = OnHidden(ui, nx)
            /\ Handled("visibility.hidden", HiddenFrames(ui), HiddenDisplay(ui))
       ELSE /\ nx' = nx
            /\ Handled("visibility.ignored", <<>>, Quiet)
    /\ UNCHANGED <<ui, dom, sock, pc, timers, tracks, closure, mounted, voice>>

\* A second visibilitychange to hidden handled right behind the first, before
\* the render the first one asked for: the handler still registered is the
\* one that closed over the old tabSwitchCount.
TabHiddenBackToBack ==
    /\ mounted /\ stale <= MaxStale /\ last = "visibility.hidden"
    /\ ui.setupComplete /\ ui.tabSwitchCount < MaxTabSwitch
    /\ nx' = OnHidden(ui, nx)
    /\ Handled("visibility.hidden", HiddenFrames(ui), HiddenDisplay(ui))
    /\ UNCHANGED <<ui, dom, sock, pc, timers, tracks, closure, mounted, voice>>

\* handleFullscreenChange after an exit, on closure c, queueing into q
FsCounts(c) == c.setupComplete /\ ~c.interviewEndedByProctor

OnFullscreenExit(c, q) ==
    LET newCount == c.fullscreenExitCount + 1
    IN IF ~FsCounts(c) THEN q
       ELSE IF newCount = 1
       THEN [q EXCEPT !.fullscreenExitCount = newCount, !.showFullscreenPrompt = TRUE]
       ELSE IF newCount >= FS_LIMIT
       THEN [q EXCEPT !.fullscreenExitCount = newCount,
                      !.interviewEndedByProctor = TRUE]
       ELSE [q EXCEPT !.fullscreenExitCount = newCount]

FullscreenExitDisplay(c) ==
    LET newCount == c.fullscreenExitCount + 1
    IN IF ~FsCounts(c) THEN Quiet
       ELSE IF newCount = 1 THEN [Quiet EXCEPT !.fullscreenWarning = WarnFs1]
       ELSE IF newCount >= FS_LIMIT THEN [Quiet EXCEPT !.fullscreenWarning = WarnFsEnd]
       ELSE Quiet

FullscreenExitFrames(c) ==
    LET newCount == c.fullscreenExitCount + 1
    IN IF ~FsCounts(c) THEN <<>>
       ELSE GuardedSend(c, MsgFsViolation(newCount))
            \o (IF newCount >= FS_LIMIT /\ newCount # 1
                THEN GuardedSend(c, MsgEnd("fullscreen")) ELSE <<>>)

\* fullscreenchange after the document left fullscreen: by the user, or by
\* the page's own exitFullscreen().
FullscreenExit(cause) ==
    /\ CanRun /\ dom.fullscreen
    /\ cause = "page" => dom.exitReq
    /\ FsCounts(ui) => ui.fullscreenExitCount < MaxFsExit
    /\ dom' = [dom EXCEPT !.fullscreen = FALSE, !.exitReq = FALSE]
    /\ nx' = OnFullscreenExit(ui, nx)
    /\ timers' = IF FsCounts(ui) /\ ui.fullscreenExitCount + 1 = 1
                 THEN [timers EXCEPT !.fsRetry = TRUE] ELSE timers
    /\ Handled("fullscreen.exit." \o cause, FullscreenExitFrames(ui),
               FullscreenExitDisplay(ui))
    /\ UNCHANGED <<ui, sock, pc, tracks, closure, mounted, voice>>

\* setTimeout(() => enterFullscreen(), 3000) fires; the request settles.
FsRetryFires(r) ==
    /\ timers.fsRetry
    /\ mounted => stale < MaxStale
    /\ timers' = [timers EXCEPT !.fsRetry = FALSE]
    /\ dom' = [dom EXCEPT !.fullscreen = (r = "entered") \/ @]
    /\ Emit("fsRetry." \o r, <<>>, IF mounted THEN EnterFullscreen(r) ELSE Quiet)
    /\ stale' = IF mounted THEN stale + 1 ELSE stale
    /\ UNCHANGED <<ui, nx, sock, pc, tracks, closure, mounted, voice>>

\* Click on "Return to Fullscreen" in the prompt overlay.
ReturnToFullscreen(r) ==
    /\ CanRun /\ ui.setupComplete
    /\ ui.showFullscreenPrompt /\ ui.fullscreenExitCount = 1
    /\ ~ui.interviewEndedByProctor
    /\ dom' = [dom EXCEPT !.fullscreen = (r = "entered") \/ @]
    /\ nx' = [nx EXCEPT !.showFullscreenPrompt = FALSE]
    /\ Handled("returnToFullscreen." \o r, <<>>,
               [EnterFullscreen(r) EXCEPT !.fullscreenWarning = "null"])
    /\ UNCHANGED <<ui, sock, pc, timers, tracks, closure, mounted, voice>>

\* A connection attempt and a fullscreen request settle well within the time
\* budget of the interview.
Settled == sock # "CONNECTING" /\ pc.setup = "idle"

\* setTimeout(() => setTimerSec(s => s - 1), 1000) fires; the countdown does
\* not run out while a request is still pending.
Tick ==
    /\ CanRun /\ timers.tick
    /\ nx.timerSec = 1 => Settled
    /\ timers' = [timers EXCEPT !.tick = FALSE]
    /\ nx' = [nx EXCEPT !.timerSec = @ - 1]
    /\ Handled("tick", <<>>, Quiet)
    /\ UNCHANGED <<ui, dom, sock, pc, tracks, closure, mounted, voice>>

\* The controls are disabled by `disabled={...}` of the committed render.
EndButtonEnabled(c) ==
    c.setupComplete /\ c.isConnected /\ ~c.status.is_complete
    /\ ~c.interviewEndedByProctor

\* Confirmed click on the end-interview button.
EndInterviewClick ==
    /\ CanRun /\ EndButtonEnabled(ui)
    /\ Handled("endButton", OptionalSend(ui, MsgEnd("button")), Quiet)
    /\ UNCHANGED <<ui, nx, dom, sock, pc, timers, tracks, closure, mounted, voice>>

---------------------------------------------------------------------------
(* Speech capture: startListening, the Transcript handler, stopListening *)

\* String.prototype.trim
RECURSIVE TrimLeft(_)
TrimLeft(t) == IF t # <<>> /\ Head(t) = " " THEN TrimLeft(Tail(t)) ELSE t

RECURSIVE TrimRight(_)
TrimRight(t) == IF t # <<>> /\ t[Len(t)] = " "
                THEN TrimRight(SubSeq(t, 1, Len(t) - 1)) ELSE t

Trim(t) == TrimRight(TrimLeft(t))

\* data.channel.alternatives[0].transcript of a Transcript event
RawTranscripts == {<<>>, <<" ">>, <<"a">>, <<" ", "b", " ">>}

\* The microphone button is disabled by `disabled={...}` of the committed render.
MicButtonEnabled(c) ==
    c.setupComplete /\ c.isConnected /\ ~c.isSpeaking /\ ~c.status.is_complete
    /\ ~c.interviewEndedByProctor

\* The first line of startListening lets it continue.
CanListen(c) == c.audioStream /\ c.ws /\ sock = "OPEN"

\* Click on the microphone button while not listening: startListening up to
\* its first await.
StartListening ==
    /\ CanRun /\ MicButtonEnabled(ui) /\ ~ui.isListening
    /\ pc.listen = "idle"
    /\ IF CanListen(ui)
       THEN /\ voice' = [CleanupVoice(voice) EXCEPT !.frags = <<>>, !.events = 0]
            /\ nx' = [nx EXCEPT !.isListening = TRUE]
            /\ pc' = [pc EXCEPT !.listen = "token"]
       ELSE UNCHANGED <<voice, nx, pc>>
    /\ Handled("startListening", <<>>, Quiet)
    /\ UNCHANGED <<ui, dom, sock, timers, tracks, closure, mounted>>

\* The token fetch and the recording stream settle: the recorder and the
\* transcription connection are created, or the catch block runs.
ListenSetup(ok) ==
    /\ CanRun /\ pc.listen = "token"
    /\ pc' = [pc EXCEPT !.listen = "idle"]
    /\ IF ok
       THEN /\ voice' = [voice EXCEPT !.recorderRef = "set", !.dgConnRef = "set",
                                      !.rec = "inactive", !.dg = "connecting",
                                      !.recStream = "live"]
            /\ nx' = nx
       ELSE /\ voice' = voice
            /\ nx' = [nx EXCEPT !.isListening = FALSE]
    /\ Handled(IF ok THEN "listen.ready" ELSE "listen.failed", <<>>,
               IF ok THEN Quiet ELSE SetError(ErrVoice))
    /\ UNCHANGED <<ui, dom, sock, timers, tracks, closure, mounted>>

\* The token fetch and the recording stream settle and MediaRecorder supports
\* none of the listed types: the recorder is created without a mimeType and
\* startListening goes on as usual, or the constructor throws and the catch
\* block runs with the recording stream acquired.
ListenSetupNoFormat(constructs) ==
    /\ CanRun /\ pc.listen = "token"
    /\ pc' = [pc EXCEPT !.listen = "idle"]
    /\ IF constructs
       THEN /\ voice' = [voice EXCEPT !.recorderRef = "set", !.dgConnRef = "set",
                                      !.rec = "inactive", !.dg = "connecting",
                                      !.recStream = "live"]
            /\ nx' = nx
       ELSE /\ voice' = [voice EXCEPT !.recStream = "live"]
            /\ nx' = [nx EXCEPT !.isListening = FALSE]
    /\ Handled(IF constructs THEN "listen.noformat.ready" ELSE "listen.noformat.failed",
               <<>>, IF constructs THEN Quiet ELSE SetError(ErrVoice))
    /\ UNCHANGED <<ui, dom, sock, timers, tracks, closure, mounted>>

\* LiveTranscriptionEvents.Open: recorder.start(250)
TranscriptionOpen ==
    /\ mounted /\ voice.dg = "connecting"
    /\ voice' = [voice EXCEPT !.dg = "open",
                              !.rec = IF @ = "inactive" THEN "recording" ELSE @]
    /\ Emit("dg.open", <<>>, Quiet)
    /\ UNCHANGED <<ui, nx, dom, sock, pc, timers, tracks, closure, mounted, stale>>

\* The Transcript handler on bufferRef: only a non-empty final transcript is
\* appended, after a space when the buffer is not empty.
OnTranscript(buffer, raw, final) ==
    LET txt == Trim(raw)
    IN IF txt # <<>> /\ final
       THEN buffer \o (IF buffer # <<>> THEN <<" ">> ELSE <<>>) \o txt
       ELSE buffer

\* LiveTranscriptionEvents.Transcript
Transcript(raw, final) ==
    /\ mounted /\ voice.dg = "open" /\ voice.events < MaxFragments
    /\ voice' = [voice EXCEPT
                    !.buffer = OnTranscript(@, raw, final),
                    !.frags = IF Trim(raw) # <<>> /\ final
                              THEN Append(@, Trim(raw)) ELSE @,
                    !.events = @ + 1]
    /\ Emit("dg.transcript", <<>>, Quiet)
    /\ UNCHANGED <<ui, nx, dom, sock, pc, timers, tracks, closure, mounted, stale>>

\* LiveTranscriptionEvents.Transcript of a connection that was finished
\* while open: the results of the audio it had received arrive as a last
\* final transcript, and its handler appends to the same bufferRef.
LateTranscript(raw) ==
    /\ mounted /\ voice.late
    /\ voice' = [voice EXCEPT
                    !.buffer = OnTranscript(@, raw, TRUE),
                    !.foreign = @ \/ Trim(raw) # <<>>,
                    !.late = FALSE]
    /\ Emit("dg.transcript.late", <<>>, Quiet)
    /\ UNCHANGED <<ui, nx, dom, sock, pc, timers, tracks, closure, mounted, stale>>

\* What stopListening sends and reports, given bufferRef.current.
StopFrames(c, buffer) ==
    IF Trim(buffer) # <<>> /\ c.ws /\ sock = "OPEN"
    THEN <<MsgAnswer(Trim(buffer))>> ELSE <<>>

StopDisplay(buffer) == IF Trim(buffer) = <<>> THEN SetError(ErrNoSpeech) ELSE Quiet

\* Click on the microphone button while listening: stopListening.
StopListening ==
    /\ CanRun /\ MicButtonEnabled(ui) /\ ui.isListening
    /\ voice' = CleanupVoice(voice)
    /\ nx' = CleanupVoiceCells(nx)
    /\ Handled("stopListening", StopFrames(ui, voice.buffer), StopDisplay(voice.buffer))
    /\ UNCHANGED <<ui, dom, sock, pc, timers, tracks, closure, mounted>>

---------------------------------------------------------------------------
(* The session: setup, protocol socket, integrity monitoring, timer *)

\* How a requestFullscreen() settles.
FsResults == {"entered", "rejected"}

\* Setup with every outcome of every request.
SetupStep ==
    \/ ParamsResolved
    \/ RequestPermissions
    \/ \E r \in {"granted", "denied", "failed"} : CameraResult(r)
    \/ \E r \in {"granted", "denied", "failed"} : MicrophoneResult(r)
    \/ StartScreenShare
    \/ \E ok \in BOOLEAN : DisplayResult(ok)
    \/ ScreenShareEnded
    \/ CompleteSetup
    \/ \E r \in FsResults : CompleteSetupResume(r)

\* Setup in which the candidate grants every request.
GrantedSetupStep ==
    \/ ParamsResolved
    \/ RequestPermissions
    \/ CameraResult("granted")
    \/ MicrophoneResult("granted")
    \/ StartScreenShare
    \/ DisplayResult(TRUE)
    \/ ScreenShareEnded
    \/ CompleteSetup
    \/ \E r \in FsResults : CompleteSetupResume(r)

SessionStep ==
    \/ RedirectFires
    \/ SocketOpen
    \/ ServerClosing
    \/ \E code \in {NORMAL_CLOSE, NORMAL_CLOSE + 6} : SocketClosed(code)
    \/ \E m \in Inbound : SocketMessage(m)
    \/ TabHidden
    \/ \E cause \in {"user", "page"} : FullscreenExit(cause)
    \/ \E r \in FsResults : FsRetryFires(r)
    \/ \E r \in FsResults : ReturnToFullscreen(r)
    \/ Tick
    \/ EndInterviewClick

\* The interview session of a candidate who grants every request.
Next == GrantedSetupStep \/ SessionStep \/ Render

Spec == Init /\ [][Next]_vars

\* The setup screen alone, with refusals and failures.
NextSetup == SetupStep \/ TabHidden \/ Render

SpecSetup == Init /\ [][NextSetup]_vars

\* The countdown against the other ways a session ends.
TimerStep ==
    \/ SocketOpen
    \/ SocketMessage([kind |-> "interview_complete", max_questions |-> Undef,
                      text |-> "none"])
    \/ TabHidden
    \/ Tick

NextTimer == GrantedSetupStep \/ TimerStep \/ Render

SpecTimer == Init /\ [][NextTimer]_vars

\* One answer after another on a connected session.
CaptureStep ==
    \/ SocketOpen
    \/ ServerClosing
    \/ \E code \in {NORMAL_CLOSE, NORMAL_CLOSE + 6} : SocketClosed(code)
    \/ StartListening
    \/ \E ok \in BOOLEAN : ListenSetup(ok)
    \/ \E constructs \in BOOLEAN : ListenSetupNoFormat(constructs)
    \/ TranscriptionOpen
    \/ \E raw \in RawTranscripts, final \in BOOLEAN : Transcript(raw, final)
    \/ \E raw \in RawTranscripts : LateTranscript(raw)
    \/ StopListening

NextCapture == GrantedSetupStep \/ CaptureStep \/ Render

SpecCapture == Init /\ [][NextCapture]_vars

\* Questions spoken to the candidate, and the microphone button.
SpeechStep ==
    \/ SocketOpen
    \/ \E m \in InboundSpoken : SocketMessage(m)
    \/ \E r \in {"audio", "null", "throws"} : TtsResult(r)
    \/ ElevenEnds
    \/ \E interrupted \in BOOLEAN : UtteranceEnds(interrupted)
    \/ StartListening
    \/ \E ok \in BOOLEAN : ListenSetup(ok)
    \/ StopListening

NextSpeech == GrantedSetupStep \/ SpeechStep \/ Render

SpecSpeech == Init /\ [][NextSpeech]_vars

\* The life of the protocol socket under tab switches and the end button.
SocketStep ==
    \/ SocketOpen
    \/ ServerClosing
    \/ \E code \in {NORMAL_CLOSE, NORMAL_CLOSE + 6} : SocketClosed(code)
    \/ TabHidden
    \/ EndInterviewClick

NextSocket == GrantedSetupStep \/ SocketStep \/ Render

SpecSocket == Init /\ [][NextSocket]_vars

\* Question frames and their playback.
QuestionStep ==
    \/ SocketOpen
    \/ \E m \in Questions : SocketMessage(m)
    \/ \E r \in {"audio", "null", "throws"} : TtsResult(r)
    \/ ElevenEnds
    \/ \E interrupted \in BOOLEAN : UtteranceEnds(interrupted)

NextQuestion == GrantedSetupStep \/ QuestionStep \/ Render

SpecQuestion == Init /\ [][NextQuestion]_vars

\* One question after another with every outcome of the provider.
PlaybackStep ==
    \/ SocketOpen
    \/ SocketMessage([kind |-> "question", question_count |-> 1, max_questions |-> 2,
                      text |-> "words"])
    \/ \E r \in {"audio", "null", "throws"} : TtsResult(r)
    \/ ElevenEnds
    \/ ElevenFails
    \/ \E interrupted \in BOOLEAN : UtteranceEnds(interrupted)

NextPlayback == GrantedSetupStep \/ PlaybackStep \/ Render

SpecPlayback == Init /\ [][NextPlayback]_vars

\* The end of a session: frames after the last question, and the redirect.
\* Renders are not postponed for ever and an armed timeout fires.
RedirectStep ==
    \/ SocketOpen
    \/ \E m \in {f \in Inbound : f.kind \in {"interview_complete", "question"}} :
          SocketMessage(m)
    \/ TabHidden
    \/ RedirectFires

NextRedirect == GrantedSetupStep \/ RedirectStep \/ Render

SpecRedirect ==
    Init /\ [][NextRedirect]_vars /\ WF_vars(Render) /\ WF_vars(RedirectFires)

\* Tab switches and fullscreen exits of a session.
IntegrityStep ==
    \/ SocketOpen
    \/ TabHidden
    \/ \E cause \in {"user", "page"} : FullscreenExit(cause)
    \/ \E r \in FsResults : FsRetryFires(r)
    \/ \E r \in FsResults : ReturnToFullscreen(r)

NextIntegrity == GrantedSetupStep \/ IntegrityStep \/ Render

SpecIntegrity == Init /\ [][NextIntegrity]_vars

\* Tab switches, one at a time and back to back.
TabStep ==
    \/ SocketOpen
    \/ TabHidden
    \/ TabHiddenBackToBack

NextTab == GrantedSetupStep \/ TabStep \/ Render

SpecTab == Init /\ [][NextTab]_vars

---------------------------------------------------------------------------
(* Session termination *)

\* C1: in any session at most one "end interview" frame is ever sent on the
\* protocol socket, whatever the interleaving of tab-hidden events,
\* fullscreen exits, timer expiry and end-button clicks.
C1_AtMostOneEndSession == Len(ends) <= 1

\* C2: status.is_complete (Complete) and interviewEndedByProctor (Terminated)
\* are never both true.
C2_OneTerminalPhase == ~(ui.status.is_complete /\ ui.interviewEndedByProctor)

\* C3: terminal phases are absorbing: once is_complete or
\* interviewEndedByProctor is true, no later step makes it false.
C3_TerminalAbsorbing ==
    [][ /\ nx.status.is_complete => nx'.status.is_complete
        /\ nx.interviewEndedByProctor => nx'.interviewEndedByProctor ]_vars

\* C4: once the rendered session is Complete or Terminated, no step puts a
\* frame of any kind on the protocol socket.
C4_NoSendAfterTerminal == [][Terminal(ui) /\ Terminal(nx) => out' = <<>>]_vars

\* C5: once the tab-switch counter has reached 3, a later hidden event is a
\* no-op: the counter is not incremented, and no tab-switch frame and no
\* further "end interview" frame is sent.
C5_HiddenAfterLimitIsNoOp ==
    [][ ui.tabSwitchCount >= TAB_LIMIT /\ last' = "visibility.hidden"
        => nx' = nx /\ out' = <<>> ]_vars

\* C6: when the fullscreen exit count reaches 2 and the timer expires in the
\* same tick, in either order, only one "end interview" frame is sent: the
\* timer's and the fullscreen handler's are never both on the wire.
C6_FullscreenOrTimerEndsOnce ==
    ends \notin {<<"timer", "fullscreen">>, <<"fullscreen", "timer">>}

---------------------------------------------------------------------------
(* Speech capture *)

\* f1..fn joined by single spaces
RECURSIVE JoinBySpaces(_)
JoinBySpaces(fs) ==
    IF fs = <<>> THEN <<>>
    ELSE IF Len(fs) = 1 THEN fs[1]
    ELSE fs[1] \o <<" ">> \o JoinBySpaces(Tail(fs))

\* C8: stopListening sends exactly one answer frame whose text is the
\* fragments appended during this capture activation, joined by single
\* spaces and trimmed; with no fragment it sends nothing and sets the
\* no-speech notice.
C8_StopSendsTheJoinedAnswer ==
    [][ last' = "stopListening"
        => IF voice.frags = <<>>
           THEN out' = <<>> /\ shown'.error = ErrNoSpeech
           ELSE out' = <<MsgAnswer(Trim(JoinBySpaces(voice.frags)))>> ]_vars

---------------------------------------------------------------------------
(* completeSetup *)

\* C9: if fullscreen entry fails during completeSetup, the error is
\* surfaced and setup does not complete: setupComplete stays false (so the
\* WebSocket effect will not open the protocol socket) and the timer is not
\* started.
C9_FullscreenFailureBlocksSetup ==
    [][ pc.setup = "fullscreen" /\ last' = "completeSetup.rejected"
        => /\ shown'.error = ErrFullscreen
           /\ ~nx'.setupComplete /\ ~OpensSocket(nx')
           /\ ~nx'.timerActive ]_vars

\* C10: completeSetup invoked while camera-granted, mic-granted or
\* screen-share-active is false changes no cell (setupComplete and
\* timerActive stay as they were, false before setup has completed), does
\* not request fullscreen and reports nothing.
C10_FailedPreconditionChangesNothing ==
    [][ /\ last' = "completeSetup"
        /\ \/ ui.cameraPermission # "granted"
           \/ ui.micPermission # "granted"
           \/ ~ui.screenShareActive
        => /\ nx' = nx /\ ui' = ui
           /\ pc'.setup = "idle"
           /\ dom' = dom
           /\ shown' = Quiet /\ out' = <<>> ]_vars

\* C10 happens: Start Interview was clicked after the screen share had been
\* stopped, and setup is still incomplete with no fullscreen request pending.
C10_Witness ==
    /\ last = "completeSetup"
    /\ BothGranted(ui) /\ ~ui.screenShareActive
    /\ ~nx.setupComplete /\ ~nx.timerActive
    /\ pc.setup = "idle" /\ ~dom.fullscreen

---------------------------------------------------------------------------
(* Setup order and resources *)

\* C11: whenever the protocol socket is created, both permissions are
\* 'granted' and screenShareActive is true in the render that creates it.
C11_SocketOnlyWithActiveShare ==
    [][ sock = "NONE" /\ sock' = "CONNECTING"
        => BothGranted(ui') /\ ui'.screenShareActive ]_vars

\* A track the page has stopped, and one it has stopped more than once.
Released(t) == t \in {"stopped", "restopped"}
AllTracks == {tracks.video[i] : i \in DOMAIN tracks.video} \cup {tracks.audio, tracks.screen}

\* C12: no camera, microphone or screen-share track is stopped by the page
\* while the page is mounted and the session is in setup or Active, and no
\* track is stopped twice.
C12_TracksReleasedOnceAtTeardown ==
    /\ mounted /\ ~Terminal(ui) => \A t \in AllTracks : ~Released(t)
    /\ \A t \in AllTracks : t # "restopped"

\* Position of a setup step in Permissions, VoiceSelection, ScreenShare, Ready.
StepIndex(step) ==
    CASE step = "permissions" -> 1
      [] step = "voice-selection" -> 2
      [] step = "screen-share" -> 3
      [] step = "ready" -> 4

\* C13: the rendered checklist advances one step at a time in the order
\* Permissions, VoiceSelection, ScreenShare, Ready: no step is skipped.
C13_NoSetupStepSkipped ==
    [][ StepIndex(ui'.setupStep) \in
            {StepIndex(ui.setupStep), StepIndex(ui.setupStep) + 1} ]_vars

---------------------------------------------------------------------------
(* Inbound frames and playback *)

\* C14: once an interview_complete frame has been received nothing is
\* spoken: speakText is started neither for that frame nor for a later one.
C14_NothingSpokenOnceComplete ==
    [][ nx'.status.is_complete => voice'.tts <= voice.tts ]_vars

\* C15: a frame of unknown shape is treated as an error: the handler
\* surfaces an error and leaves the phase and the progress counters as
\* they were.
C15_UnknownFrameIsAnError ==
    [][ last' = "socket.onmessage.unknown"
        => shown'.error \notin {"none", "null"} /\ nx'.status = nx.status ]_vars

\* C16: a confirmed click on the end-interview control leaves the session
\* in a terminal phase, so that a later click, timer expiry or violation
\* threshold finds nothing to do.
C16_EndButtonTerminates ==
    [][ last' = "endButton" => Terminal(nx') ]_vars

\* What is audible: provider audio being played and the utterance the
\* browser's synthesis is speaking.
Audible(v) == v.eleven + (IF v.utterance THEN 1 ELSE 0)

\* C17: at most one utterance is audible at a time: a playback never
\* starts while an earlier one is still playing.
C17_AtMostOneUtteranceAudible == Audible(voice) <= 1

---------------------------------------------------------------------------
(* Speech capture *)

\* C18: startListening takes effect only when the protocol socket is open,
\* capture is not already listening and no playback is in progress.
C18_CaptureStartsOnlyWhenQuiet ==
    [][ last' = "startListening" /\ nx'.isListening /\ ~nx.isListening
        => sock = "OPEN" /\ ~ui.isListening /\ Audible(voice) = 0 ]_vars

\* C19: once stopListening has returned, the recording stream is released
\* and no recorder or transcription connection is live or becomes live,
\* also when it ran while startListening was suspended.
C19_StopReleasesCapture ==
    [][ /\ last' = "stopListening"
            => /\ voice'.recStream # "live"
               /\ voice'.rec # "recording"
               /\ voice'.dg \notin {"connecting", "open"}
        /\ ~nx.isListening /\ voice.dg # "connecting" => voice'.dg # "connecting" ]_vars

\* C20: the text stopListening sends for an activation holds only
\* fragments finalized by that activation's transcription session, never
\* one delivered by the session of an earlier activation.
C20_AnswerHoldsOnlyOwnFragments ==
    [][ last' = "stopListening" /\ out' # <<>> => ~voice.foreign ]_vars

---------------------------------------------------------------------------
(* Termination, screen share, socket events *)

\* C21: once the session is Terminated, every owned resource is stopped:
\* capture is not listening, playback is cancelled, the timer is not running,
\* the media tracks are released, fullscreen is exited and the protocol
\* socket is closed.
C21_TerminatedStopsEverything ==
    mounted /\ ui.interviewEndedByProctor
        => /\ ~ui.isListening /\ ~voice.utterance /\ ~timers.tick
           /\ \A t \in AllTracks : t # "live"
           /\ ~dom.fullscreen
           /\ sock \notin {"CONNECTING", "OPEN"}

\* C22: when the user ends the screen share of an Active session, the
\* end-of-stream handler sends {type: "screen-share", action: "ended"} on the
\* protocol socket and leaves the phase as it is.
C22_ShareEndIsReported ==
    [][ last' = "screen.onended" /\ ui.setupComplete /\ ~Terminal(ui) /\ sock = "OPEN"
        => /\ out' = <<MsgShare("ended")>>
           /\ nx'.setupComplete = nx.setupComplete
           /\ nx'.status = nx.status
           /\ nx'.interviewEndedByProctor = nx.interviewEndedByProctor ]_vars

\* C23: when the protocol socket of an Active session closes with a code
\* other than 1000, the connection-lost error is set; a close with code 1000
\* sets no error; either way the phase is unchanged and no new connection
\* is attempted.
C23_CloseSetsErrorOnly ==
    [][ mounted /\ ui.setupComplete /\ ~Terminal(nx)
        /\ last' \in {"socket.onclose.normal", "socket.onclose.abnormal"}
        => /\ shown'.error = IF last' = "socket.onclose.abnormal" THEN ErrLost ELSE "none"
           /\ nx' = [nx EXCEPT !.isConnected = FALSE]
           /\ sock' = "CLOSED" ]_vars

C23_Witness ==
    /\ mounted /\ ui.setupComplete /\ ~Terminal(nx)
    /\ last = "socket.onclose.abnormal" /\ shown.error = ErrLost
    /\ ui.isConnected /\ ~nx.isConnected

\* C24: on the open of the protocol socket {type: "screen-share", action:
\* "started"} is sent at once and is the first frame on that socket: no frame
\* leaves on a socket that has not opened.
C24_StartedIsFirstFrame ==
    [][ /\ sock = "CONNECTING" /\ sock' = "OPEN"
            => out' # <<>> /\ Head(out') = MsgShare("started")
        /\ out' # <<>> /\ sock # "OPEN"
            => sock = "CONNECTING" /\ sock' = "OPEN" ]_vars

C24_Witness ==
    /\ last = "socket.onopen" /\ sock = "OPEN" /\ out = <<MsgShare("started")>>
    /\ ui.ws /\ ui.tabSwitchCount >= 1

---------------------------------------------------------------------------
(* Inbound questions *)

\* C25: on a question frame the progress counters become the frame's
\* question_count and max_questions; a text with words starts exactly one
\* playback, and without a text (or with a text of white space only, on
\* which speakText returns at once) none starts.
C25_QuestionSetsCountersAndSpeaks ==
    [][ \A m \in Questions :
          SocketMessage(m)
          => /\ nx'.status.question_count = m.question_count
             /\ nx'.status.max_questions = m.max_questions
             /\ IF m.text = "words"
                THEN voice'.tts = voice.tts + 1 /\ nx'.isSpeaking
                ELSE voice' = voice /\ nx'.isSpeaking = nx.isSpeaking ]_vars

C25_Witness ==
    /\ last = "socket.onmessage.question"
    /\ nx.status.question_count = 1 /\ nx.status.max_questions = 2
    /\ voice.tts = 1 /\ nx.isSpeaking /\ ~ui.isSpeaking

---------------------------------------------------------------------------
(* Integrity monitoring *)

\* The step is a visibility change to hidden, or a fullscreen exit.
HiddenStep == last' \in {"visibility.hidden", "visibility.ignored"}
FsExitStep == last' \in {"fullscreen.exit.user", "fullscreen.exit.page"}

\* C26: the two violation counters are independent: a tab-hidden event
\* never changes fullscreenExitCount, a fullscreen exit never changes
\* tabSwitchCount, no step resets a counter, and in an Active session each
\* policy counts its event whatever the other counter has reached.
C26_CountersIndependent ==
    [][ /\ HiddenStep => nx'.fullscreenExitCount = nx.fullscreenExitCount
        /\ FsExitStep => nx'.tabSwitchCount = nx.tabSwitchCount
        /\ nx'.tabSwitchCount >= nx.tabSwitchCount
        /\ nx'.fullscreenExitCount >= nx.fullscreenExitCount
        /\ HiddenStep /\ ui.setupComplete /\ ~Terminal(ui)
             => nx'.tabSwitchCount = ui.tabSwitchCount + 1
        /\ FsExitStep /\ ui.setupComplete /\ ~Terminal(ui)
             => nx'.fullscreenExitCount = ui.fullscreenExitCount + 1 ]_vars

C26_Witness ==
    /\ last = "fullscreen.exit.user"
    /\ ui.tabSwitchCount = 2 /\ nx.tabSwitchCount = 2
    /\ ui.fullscreenExitCount = 1 /\ nx.fullscreenExitCount = FS_LIMIT

\* C27: every change to hidden in an Active session raises tabSwitchCount by
\* exactly one and, on the open socket, sends a tab-switch frame with the new
\* value, also when two such events come back to back; before setup is
\* complete a change to hidden changes nothing.
C27_EveryHiddenEventCounted ==
    [][ HiddenStep
        => IF ui.setupComplete /\ ~Terminal(ui)
           THEN /\ nx'.tabSwitchCount = nx.tabSwitchCount + 1
                /\ sock = "OPEN" /\ ui.ws
                     => out' # <<>> /\ Head(out') = MsgTabSwitch(nx.tabSwitchCount + 1)
           ELSE ~ui.setupComplete => nx' = nx /\ out' = <<>> ]_vars

\* C28: escalation is graduated: in an Active session a tab switch or a
\* fullscreen exit terminates the session exactly when its own counter
\* reaches its threshold (3 and 2); below it the event only sets a warning,
\* and the first fullscreen exit schedules a fullscreen re-request.
C28_GraduatedEscalation ==
    [][ /\ HiddenStep /\ ui.setupComplete /\ ~Terminal(ui)
            => /\ nx'.interviewEndedByProctor <=> nx'.tabSwitchCount >= TAB_LIMIT
               /\ nx'.tabSwitchCount < TAB_LIMIT
                    => shown'.proctorWarning # "none" /\ EndsOf(out') = <<>>
        /\ FsExitStep /\ ui.setupComplete /\ ~Terminal(ui)
            => /\ nx'.interviewEndedByProctor <=> nx'.fullscreenExitCount >= FS_LIMIT
               /\ nx'.fullscreenExitCount < FS_LIMIT
                    => /\ shown'.fullscreenWarning # "none" /\ EndsOf(out') = <<>>
                       /\ timers'.fsRetry ]_vars

---------------------------------------------------------------------------
(* Failures of capture and of the permission requests *)

\* C29: when no listed audio encoding is supported, startListening aborts
\* before a transcription session is opened: no recorder and no
\* transcription connection is created, an error is surfaced and capture is
\* left not listening.
C29_NoEncodingAborts ==
    [][ last' \in {"listen.noformat.ready", "listen.noformat.failed"}
        => /\ voice'.recorderRef = "null" /\ voice'.dgConnRef = "null"
           /\ voice'.dg # "connecting"
           /\ shown'.error # "none"
           /\ ~nx'.isListening ]_vars

\* C30: when the camera or the microphone request is denied,
\* requestPermissions records the denial and surfaces an error; the setup
\* step stays where it is, setup is not completed by it, and no request is
\* issued again on its own.
C30_DenialHaltsSetup ==
    [][ last' \in {"camera.denied", "microphone.denied"}
        => /\ nx'.cameraPermission = "denied" /\ nx'.micPermission = "denied"
           /\ shown'.error = ErrPermission
           /\ nx'.setupStep = nx.setupStep
           /\ nx'.setupComplete = nx.setupComplete
           /\ pc'.perm = "idle" /\ pc'.attempts = pc.attempts
           /\ tracks' = tracks /\ sock' = sock ]_vars

C30_Witness ==
    /\ last = "microphone.denied" /\ shown.error = ErrPermission
    /\ nx.micPermission = "denied" /\ ui.cameraPermission = "granted"
    /\ nx.setupStep = "permissions" /\ ~nx.setupComplete /\ pc.perm = "idle"

---------------------------------------------------------------------------
(* Playback *)

\* C31: speakText tries the provider first; when the provider gives no audio
\* or fails (the fetch or the playback throws) the browser's synthesis speaks
\* the text, and a call the provider played to its end starts no synthesis.
C31_FallbackOnProviderFailure ==
    [][ /\ last' = "tts.audio"
            => voice'.eleven = voice.eleven + 1 /\ voice'.utterance = voice.utterance
        /\ last' \in {"tts.null", "tts.throws"}
            => voice'.utterance /\ voice'.eleven = voice.eleven
        /\ last' = "playAudio.failed"
            => voice'.utterance /\ voice'.eleven = voice.eleven - 1
        /\ last' = "playAudio.ended"
            => voice'.utterance = voice.utterance /\ voice'.eleven = voice.eleven - 1
      ]_vars

C31_Witness ==
    /\ last = "playAudio.failed" /\ voice.utterance /\ voice.eleven = 0
    /\ voice.tts = 0 /\ ~nx.isSpeaking

\* C32: isSpeaking is true whenever an utterance is being played, by the
\* provider or by the browser's synthesis, and it becomes false only when
\* no playback is left.
C32_SpeakingWhilePlaying ==
    [][ /\ Audible(voice') > 0 => nx'.isSpeaking
        /\ nx.isSpeaking /\ ~nx'.isSpeaking => Busy(voice') = 0 ]_vars

---------------------------------------------------------------------------
(* Fullscreen, answers, sends *)

\* C33: the page calls exitFullscreen only at final teardown, never while
\* it is mounted, so no increment of fullscreenExitCount comes from the
\* page's own exit.
C33_PageNeverExitsFullscreen ==
    [][ /\ ~dom.exitReq /\ dom'.exitReq => ~mounted'
        /\ last' = "fullscreen.exit.page"
             => nx'.fullscreenExitCount = nx.fullscreenExitCount ]_vars

\* C34: finalized transcript text is never silently lost: stopListening with
\* a non-empty buffer sends an answer frame with that text, and the buffer
\* is emptied without a send only when capture is started again.
C34_TranscriptNeverLost ==
    [][ /\ last' = "stopListening" /\ Trim(voice.buffer) # <<>>
            => out' = <<MsgAnswer(Trim(voice.buffer))>>
        /\ voice.buffer # <<>> /\ voice'.buffer = <<>> /\ out' = <<>>
            => last' = "startListening" ]_vars

\* The end button or the tab-switch threshold called send on the protocol
\* socket while it was not open.
SendOnUnopenedSocket ==
    /\ ui.ws /\ sock # "OPEN"
    /\ \/ last' = "endButton"
       \/ last' = "visibility.hidden" /\ ui.tabSwitchCount + 1 >= TAB_LIMIT

\* C35: no handler calls send on a protocol socket that is connecting,
\* closing or closed.
C35_SendOnlyWhenOpen == [][ ~SendOnUnopenedSocket ]_vars

---------------------------------------------------------------------------
(* Completion, redirect, timer *)

\* C36: only an interview_complete frame makes the session Complete: no
\* question frame sets status.is_complete to true.
C36_OnlyCompleteFrameCompletes ==
    [][ last' = "socket.onmessage.question" /\ ~nx.status.is_complete
        => ~nx'.status.is_complete ]_vars

C38_NoFullscreenRetryWhenTerminal ==
    [][ mounted /\ Terminal(ui) /\ Terminal(nx)
        => last' \notin {"fsRetry.entered", "fsRetry.rejected"} ]_vars

\* C39: timerSec stays between 0 and TIMER_SEC and is TIMER_SEC until setup
\* completes; it never increases, and it changes only by a tick, by exactly
\* one, of a render in which timerActive is true and the session is neither
\* Complete nor Terminated.
C39_TimerCountsDownByOne ==
    /\ [](/\ nx.timerSec >= 0 /\ nx.timerSec <= TIMER_SEC
          /\ ~nx.setupComplete => nx.timerSec = TIMER_SEC)
    /\ [][ nx'.timerSec # nx.timerSec
           => /\ nx'.timerSec = nx.timerSec - 1
              /\ last' = "tick"
              /\ ui.timerActive /\ ~Terminal(ui) ]_vars

C39_Witness ==
    /\ last = "tick" /\ ui.timerSec = 1 /\ nx.timerSec = 0
    /\ ui.timerActive /\ ~Terminal(ui)

=============================================================================
